---- MODULE Spec2Model ----
(***************************************************************************)
(* Cargo task execution of vscode-rust: the Process Runner (CargoTask),    *)
(* the Diagnostic Parser (DiagnosticParser) and the Task Coordinator       *)
(* (CargoTaskManager).                                                     *)
(*                                                                         *)
(* The extension host is single-threaded.  Every action below is one       *)
(* macrotask of the event loop (a command handler, an I/O completion, a    *)
(* child-process event) together with the promise continuations it makes   *)
(* runnable; the one continuation kept as a step of its own, the rest of   *)
(* invokeCargoInit after its awaited runCargo, runs before any other       *)
(* macrotask (MicrotaskPending).                                           *)
(***************************************************************************)
EXTENDS Integers, Sequences, FiniteSets, Bags, TLC

VARIABLES
    currentTask,            \* CargoTaskManager.currentTask: 0 is null, else a key of tasks
    tasks,                  \* the CargoTask objects still reachable: id -> object
    calls,                  \* bag of the runCargo / invokeCargoInit invocations suspended
                            \* before a task of theirs runs
    nCalls,                 \* number of entry-point invocations so far
    channel,                \* the text sink: lines of the 'Cargo' output channel
    published,              \* the diagnostic sink: diagnostics since the last clearDiagnostics
    notifications,          \* the notification channel: messages shown to the user
    complexMessageIndex,    \* DiagnosticParser.complexMessageIndex
    linesDelivered,         \* number of output lines the processes have produced so far
    checkArgs,              \* an args array that a caller of invokeCargoCheckWithArgs keeps
    last                    \* what the last step did (read by no operation)

vars == <<currentTask, tasks, calls, nCalls, channel, published, notifications,
          complexMessageIndex, linesDelivered, checkArgs, last>>

----------------------------------------------------------------------------
(* Bounds of the model *)

MaxCalls == 3
MaxLines == 1

(* Inputs *)

Commands == {"build", "doc"}
\* UserDefinedArgs / the rest arguments of registerCommandInvokingCargoWithArgs
UserDefinedArgs(command) == IF command = "build" THEN <<"--release">> ELSE <<>>
ExitCodes == {0, 101}
CrateTypes == {"Application"}
\* What spawn() does: the process starts, or an 'error' event carries this message.
SpawnResults == {"ok", "ENOENT", "EACCES"}
\* What CurrentWorkingDirectoryManager.cwd() settles with.
CwdResults == {[ok |-> TRUE, value |-> "/ws"],
               [ok |-> FALSE, value |-> "No active document"]}

----------------------------------------------------------------------------
(* Diagnostic Parser *)

NoSpans == <<>>
NoChildren == <<>>

Span(file, l1, c1, l2, c2, primary, label, expansion) ==
    [file_name |-> file, line_start |-> l1, column_start |-> c1,
     line_end |-> l2, column_end |-> c2, is_primary |-> primary,
     label |-> label, expansion |-> expansion]

SimpleMessage ==
    [level |-> "error", message |-> "cannot assign", code |-> "",
     spans |-> <<Span("src/main.rs", 3, 5, 3, 12, TRUE, "", FALSE)>>,
     children |-> NoChildren]

ComplexMessage ==
    [level |-> "warning", message |-> "unused", code |-> "E0308",
     spans |-> <<Span("src/main.rs", 4, 13, 4, 16, TRUE, "here", FALSE),
                 Span("src/lib.rs", 8, 1, 9, 2, FALSE, "there", FALSE),
                 Span("src/lib.rs", 1, 1, 1, 2, FALSE, "", FALSE)>>,
     children |-> <<[level |-> "note", message |-> "see",
                     children |-> <<[level |-> "help", message |-> "fix",
                                     children |-> NoChildren]>>]>>]

\* An output line: its text and, for a line that is JSON, what JSON.parse gives.
Lines ==
    { [text |-> "Compiling x", reason |-> "", message |-> SimpleMessage],
      [text |-> "{artifact}", reason |-> "compiler-artifact", message |-> SimpleMessage],
      [text |-> "{simple}", reason |-> "compiler-message", message |-> SimpleMessage],
      [text |-> "{complex}", reason |-> "compiler-message", message |-> ComplexMessage] }

toSeverityWithoutHint(severity) ==
    CASE severity = "warning" -> "Warning"
      [] severity = "note" -> "Information"
      [] OTHER -> "Error"

toSeverity(severity) ==
    CASE severity = "warning" -> "Warning"
      [] severity = "note" -> "Information"
      [] severity = "help" -> "Hint"
      [] OTHER -> "Error"

\* '  '.repeat(level)
RECURSIVE indentation(_)
indentation(level) == IF level = 0 THEN "" ELSE "  " \o indentation(level - 1)

RECURSIVE childrenToStringSameLevel(_, _)
childrenToStringSameLevel(children, level) ==
    IF children = <<>> THEN ""
    ELSE LET child == Head(children)
         IN "\n" \o indentation(level) \o child.level \o ": " \o child.message
            \o childrenToStringSameLevel(child.children, level)
            \o childrenToStringSameLevel(Tail(children), level)

RECURSIVE childrenToString(_, _)
childrenToString(children, level) ==
    IF children = <<>> THEN ""
    ELSE LET child == Head(children)
         IN "\n" \o indentation(level) \o child.level \o ": " \o child.message
            \o childrenToString(child.children, level + 1)
            \o childrenToString(Tail(children), level)

Range(span) ==
    <<span.line_start - 1, span.column_start - 1, span.line_end - 1, span.column_end - 1>>

FileDiagnostic(span, message, level) ==
    [filePath |-> span.file_name, range |-> Range(span), message |-> message,
     severity |-> toSeverity(level)]

isComplexWheneverSpans(compilerMessage) == Len(compilerMessage.spans) > 0

isComplexCompilerMessage(compilerMessage) ==
    \/ Len(compilerMessage.spans) > 1
    \/ compilerMessage.spans[1].expansion

CodePrefix(compilerMessage) ==
    IF compilerMessage.code # "" THEN compilerMessage.code \o ": " ELSE ""

LabelLine(span) == IF span.label # "" THEN "\n" \o span.label ELSE ""

parseSimpleLabelBeforeMessage(compilerMessage) ==
    LET span == compilerMessage.spans[1]
    IN <<FileDiagnostic(span,
            CodePrefix(compilerMessage) \o span.label
                \o (IF span.label # "" THEN "\n" ELSE "") \o compilerMessage.message
                \o childrenToString(compilerMessage.children, 1),
            compilerMessage.level)>>

parseSimpleCompilerMessage(compilerMessage) ==
    LET span == compilerMessage.spans[1]
    IN <<FileDiagnostic(span,
            CodePrefix(compilerMessage) \o compilerMessage.message \o LabelLine(span)
                \o childrenToString(compilerMessage.children, 1),
            compilerMessage.level)>>

RECURSIVE parseComplexSpansBareLabel(_, _, _)
parseComplexSpansBareLabel(compilerMessage, spans, index) ==
    IF spans = <<>> THEN <<>>
    ELSE LET span == Head(spans)
             number == "(" \o ToString(index) \o ") "
             rest == parseComplexSpansBareLabel(compilerMessage, Tail(spans), index)
         IN IF span.is_primary
            THEN <<FileDiagnostic(span,
                      number \o CodePrefix(compilerMessage) \o compilerMessage.message
                          \o LabelLine(span)
                          \o childrenToString(compilerMessage.children, 1),
                      compilerMessage.level)>> \o rest
            ELSE IF span.label # ""
            THEN <<FileDiagnostic(span, number \o span.label, compilerMessage.level)>> \o rest
            ELSE rest

RECURSIVE parseComplexSpans(_, _, _)
parseComplexSpans(compilerMessage, spans, index) ==
    IF spans = <<>> THEN <<>>
    ELSE LET span == Head(spans)
             prefix == "(" \o ToString(index) \o ") " \o CodePrefix(compilerMessage)
             rest == parseComplexSpans(compilerMessage, Tail(spans), index)
         IN IF span.is_primary
            THEN <<FileDiagnostic(span,
                      prefix \o compilerMessage.message \o LabelLine(span)
                          \o childrenToString(compilerMessage.children, 1),
                      compilerMessage.level)>> \o rest
            ELSE IF span.label # ""
            THEN <<FileDiagnostic(span, prefix \o span.label, compilerMessage.level)>> \o rest
            ELSE rest

\* Every diagnostic placed at the first span of the message.
parseComplexAtFirstSpan(compilerMessage, index) ==
    LET diagnostics == parseComplexSpans(compilerMessage, compilerMessage.spans, index)
        first == compilerMessage.spans[1]
    IN [i \in DOMAIN diagnostics |->
            [diagnostics[i] EXCEPT !.filePath = first.file_name, !.range = Range(first)]]

parseComplexCompilerMessage(compilerMessage, index) ==
    parseComplexSpans(compilerMessage, compilerMessage.spans, index)

parseCompilerMessageCountingAll(compilerMessage, index) ==
    IF Len(compilerMessage.spans) = 0
    THEN [diagnostics |-> <<>>, index |-> index + 1]
    ELSE IF isComplexCompilerMessage(compilerMessage)
    THEN [diagnostics |-> parseComplexCompilerMessage(compilerMessage, index + 1),
          index |-> index + 1]
    ELSE [diagnostics |-> parseSimpleCompilerMessage(compilerMessage), index |-> index + 1]

parseCompilerMessageWithoutCounting(compilerMessage, index) ==
    IF Len(compilerMessage.spans) = 0
    THEN [diagnostics |-> <<>>, index |-> index]
    ELSE IF isComplexCompilerMessage(compilerMessage)
    THEN [diagnostics |-> parseComplexCompilerMessage(compilerMessage, index),
          index |-> index]
    ELSE [diagnostics |-> parseSimpleCompilerMessage(compilerMessage), index |-> index]

\* parseCompilerMessage: the diagnostics and the counter afterwards.
parseCompilerMessage(compilerMessage, index) ==
    IF Len(compilerMessage.spans) = 0
    THEN [diagnostics |-> <<>>, index |-> index]
    ELSE IF isComplexCompilerMessage(compilerMessage)
    THEN [diagnostics |-> parseComplexCompilerMessage(compilerMessage, index + 1),
          index |-> index + 1]
    ELSE [diagnostics |-> parseSimpleCompilerMessage(compilerMessage), index |-> index]

parseLineIgnoringReason(line, index) == parseCompilerMessage(line.message, index)

parseLine(line, index) ==
    IF line.reason = "compiler-message"
    THEN parseCompilerMessage(line.message, index)
    ELSE [diagnostics |-> <<>>, index |-> index]

startsWithBrace(text) == Len(text) > 0 /\ SubSeq(text, 1, 1) = "{"

----------------------------------------------------------------------------
(* Process Runner: CargoTask *)

Pending == [kind |-> "pending", code |-> -1, message |-> ""]
Resolved(code) == [kind |-> "resolved", code |-> code, message |-> ""]
Rejected(message) == [kind |-> "error", code |-> -1, message |-> message]
Cancelled == [kind |-> "cancelled", code |-> -1, message |-> ""]

\* new CargoTask(...): process is null, interrupted is false.  owner names the
\* function whose body awaits execute() ("runCargo"; "initRun", the runCargo that
\* invokeCargoInit awaits; "new"; "init"), argv is what spawn is given.
\* spawned, killedLive, signals and exitCode record what happened to the process and
\* are read by no operation.
CargoTask(owner, argv) ==
    [process |-> "null", interrupted |-> FALSE, outcome |-> Pending,
     owner |-> owner, argv |-> argv,
     spawned |-> FALSE, killedLive |-> FALSE, signals |-> 0, exitCode |-> -1]

\* resolve/reject of the promise execute() returns: a settled promise stays as it is.
Settle(task, outcome) ==
    IF task.outcome.kind = "pending" THEN [task EXCEPT !.outcome = outcome] ELSE task

\* execute(): spawn.  A failed spawn still returns a ChildProcess object (no pid), and
\* its 'error' event rejects the promise before any other event is handled.
execute(task, spawnResult) ==
    IF spawnResult = "ok"
    THEN [task EXCEPT !.process = "live", !.spawned = TRUE]
    ELSE Settle([task EXCEPT !.process = "failed"], Rejected(spawnResult))

onExitIgnoringInterrupted(task, code) ==
    Settle([task EXCEPT !.process = "null", !.exitCode = code], Resolved(code))

\* The 'exit' handler of execute().
onExit(task, code) ==
    Settle([task EXCEPT !.process = "null", !.exitCode = code],
           IF task.interrupted THEN Cancelled ELSE Resolved(code))

killWithoutInterruptedCheck(task) ==
    IF task.process # "null"
    THEN [task |-> [task EXCEPT !.interrupted = TRUE,
                                !.signals = @ + 1,
                                !.killedLive = @ \/ task.process = "live"],
          promise |-> "dispatched"]
    ELSE [task |-> task, promise |-> "orphaned"]

\* kill(): the task afterwards and the state of the promise returned.  The promise
\* is resolved by tree-kill's callback ("dispatched"); when the guard is false nothing
\* holds its resolve function ("orphaned").
kill(task) ==
    IF ~task.interrupted /\ task.process # "null"
    THEN [task |-> [task EXCEPT !.interrupted = TRUE,
                                !.signals = @ + 1,
                                !.killedLive = @ \/ task.process = "live"],
          promise |-> "dispatched"]
    ELSE [task |-> task, promise |-> "orphaned"]

----------------------------------------------------------------------------
(* Task Coordinator: CargoTaskManager *)

RECURSIVE join(_)
join(args) ==
    IF args = <<>> THEN ""
    ELSE IF Len(args) = 1 THEN args[1]
    ELSE args[1] \o " " \o join(Tail(args))

augmentAppending(command, args) ==
    IF command \in {"build", "check", "clippy", "run", "test"}
    THEN args \o <<"--message-format", "json">>
    ELSE args

\* The switch at the head of the task start.
augment(command, args) ==
    IF command \in {"build", "check", "clippy", "run", "test"}
    THEN <<"--message-format", "json">> \o args
    ELSE args

StartedLine(command, args) == "Started cargo " \o command \o " " \o join(args)
CompletedLine(code) == "Completed with code " \o code
DurationLine == "It took approximately t seconds"
NotAvailable ==
    [kind |-> "information",
     text |-> "The \"cargo\" command is not available. Make sure it is installed."]

singleFlightStartingAnyway(force, current) ==
    IF force /\ current # 0 THEN "preempt" ELSE "start"

\* The check of runCargo after the working directory is known.
singleFlight(force, current) ==
    IF force /\ current # 0 THEN "preempt"
    ELSE IF current # 0 THEN "drop"
    ELSE "start"

clearDiagnosticsKeeping(diagnostics) == diagnostics

\* diagnosticPublisher.clearDiagnostics(): the sink afterwards.
clearDiagnostics(diagnostics) == <<>>

reportCancelledAsCompleted(outcome) ==
    IF outcome.kind = "resolved"
    THEN [notes |-> <<>>, lines |-> <<CompletedLine(ToString(outcome.code)), DurationLine>>]
    ELSE IF outcome.kind = "cancelled"
    THEN [notes |-> <<>>, lines |-> <<CompletedLine("undefined"), DurationLine>>]
    ELSE IF outcome.message # "ENOENT"
    THEN [notes |-> <<>>, lines |-> <<>>]
    ELSE [notes |-> <<NotAvailable>>, lines |-> <<CompletedLine("undefined"), DurationLine>>]

reportDurationBeforeCode(outcome) ==
    IF outcome.kind = "resolved"
    THEN [notes |-> <<>>, lines |-> <<DurationLine, CompletedLine(ToString(outcome.code))>>]
    ELSE IF outcome.kind = "cancelled"
    THEN [notes |-> <<>>, lines |-> <<>>]
    ELSE IF outcome.message # "ENOENT"
    THEN [notes |-> <<>>, lines |-> <<>>]
    ELSE [notes |-> <<NotAvailable>>, lines |-> <<CompletedLine("undefined"), DurationLine>>]

\* What runCargo does once execute() has settled: the notifications shown and the
\* lines appended to the channel.  After the catch block's notification control
\* reaches the statements that follow the try.
report(outcome) ==
    IF outcome.kind = "resolved"
    THEN [notes |-> <<>>, lines |-> <<CompletedLine(ToString(outcome.code)), DurationLine>>]
    ELSE IF outcome.kind = "cancelled"
    THEN [notes |-> <<>>, lines |-> <<>>]
    ELSE IF outcome.message # "ENOENT"
    THEN [notes |-> <<>>, lines |-> <<>>]
    ELSE [notes |-> <<NotAvailable>>, lines |-> <<CompletedLine("undefined"), DurationLine>>]

\* An invocation of runCargo (kind "runCargo") or of invokeCargoInit (kind "init",
\* inside its runCargo or just after it), suspended at pc: "cwd" awaits cwd(), "kill"
\* awaits kill() and kill is the state of that promise, "initCont" is the rest of
\* invokeCargoInit.  target, reissued and overlapped record how the call got to its
\* await: the task it last called kill() on, whether it is runCargo calling itself
\* after a kill(), and whether that task was already interrupted and still running.
Call(kind, command, args, force) ==
    [kind |-> kind, command |-> command, args |-> args, force |-> force,
     pc |-> "cwd", kill |-> "none",
     target |-> 0, reissued |-> FALSE, overlapped |-> FALSE]

Pend(cs, c) == cs (+) SetToBag({c})
Unpend(cs, c) == cs (-) SetToBag({c})

NoTask == CargoTask("", <<>>)
NoLine == [text |-> "", reason |-> "", message |-> SimpleMessage]
Quiet == [op |-> "", kind |-> "", task |-> NoTask, line |-> NoLine, diagnostics |-> <<>>]
Did(op, kind, task) == [Quiet EXCEPT !.op = op, !.kind = kind, !.task = task]

\* A name for a new CargoTask: the least one that names no object still referred to.
FreeId(f) ==
    LET used == DOMAIN f \cup {c.target : c \in BagToSet(calls)}
    IN CHOOSE i \in 1..(Cardinality(used) + 1) :
            i \notin used /\ \A j \in 1..(i - 1) : j \in used
Put(f, i, v) == [x \in DOMAIN f \cup {i} |-> IF x = i THEN v ELSE f[x]]

\* The readline interface on the stdout of task's process still has its input (the
\* record of a task notes its streams where they outlive the process).
Draining(task) == "stdout" \in DOMAIN task /\ task.stdout.open

\* The CargoTask objects something can still act on: a live process has handlers
\* registered, so has a readline interface whose input has not ended, and
\* currentTask is a reference.
Reachable(ts, current) ==
    [t \in {x \in DOMAIN ts : ts[x].process = "live" \/ x = current \/ Draining(ts[x])}
        |-> ts[t]]

\* A promise continuation is runnable: it runs before the next macrotask.
MicrotaskPending == \E c \in BagToSet(calls) : c.pc = "initCont"

InitCont(args) == [Call("init", "init", args, FALSE) EXCEPT !.pc = "initCont"]

\* runCargo returns to its caller: a command handler, or invokeCargoInit's await.
returned(cs, c) ==
    IF c.kind = "init" THEN Pend(Unpend(cs, c), InitCont(c.args)) ELSE Unpend(cs, c)

Init ==
    /\ currentTask = 0
    /\ tasks = <<>>
    /\ calls = EmptyBag
    /\ nCalls = 0
    /\ channel = <<>>
    /\ published = <<>>
    /\ notifications = <<>>
    /\ complexMessageIndex = 0
    /\ linesDelivered = 0
    /\ checkArgs = <<"--lib">>
    /\ last = Quiet

\* invokeCargo / invokeCargo*WithArgs / a direct runCargo: up to the await of cwd().
RunCargo(command, force) ==
    /\ ~MicrotaskPending
    /\ nCalls < MaxCalls
    /\ nCalls' = nCalls + 1
    /\ calls' = Pend(calls, Call("runCargo", command, UserDefinedArgs(command), force))
    /\ last' = Quiet
    /\ UNCHANGED <<currentTask, tasks, channel, published, notifications,
                   complexMessageIndex, linesDelivered>>
    /\ UNCHANGED checkArgs

\* invokeCargoInit: builds args and awaits runCargo('init', args, false).
InvokeCargoInit(crateType) ==
    /\ ~MicrotaskPending
    /\ nCalls < MaxCalls
    /\ nCalls' = nCalls + 1
    /\ LET name == IF crateType = "Application" THEN "playground_application"
                   ELSE "playground_library"
           args == <<"", "--name", name,
                     IF crateType = "Application" THEN "--bin" ELSE "--lib">>
       IN calls' = Pend(calls, Call("init", "init", args, FALSE))
    /\ last' = Quiet
    /\ UNCHANGED <<currentTask, tasks, channel, published, notifications,
                   complexMessageIndex, linesDelivered>>
    /\ UNCHANGED checkArgs

CwdFailedKilling(c, r) ==
    /\ ~MicrotaskPending
    /\ c.pc = "cwd"
    /\ ~r.ok
    /\ notifications' = Append(notifications, [kind |-> "error", text |-> r.value])
    /\ calls' = returned(calls, c)
    /\ tasks' = IF c.force /\ currentTask # 0
                THEN [tasks EXCEPT ![currentTask] = kill(@).task]
                ELSE tasks
    /\ last' = Quiet
    /\ UNCHANGED <<currentTask, nCalls, channel, published, complexMessageIndex,
                   linesDelivered>>
    /\ UNCHANGED checkArgs

\* cwd() rejected: the error is shown and runCargo returns.
CwdFailed(c, r) ==
    /\ ~MicrotaskPending
    /\ c.pc = "cwd"
    /\ ~r.ok
    /\ notifications' = Append(notifications, [kind |-> "error", text |-> r.value])
    /\ calls' = returned(calls, c)
    /\ last' = Quiet
    /\ UNCHANGED <<currentTask, tasks, nCalls, channel, published, complexMessageIndex,
                   linesDelivered>>
    /\ UNCHANGED checkArgs

\* cwd() resolved, force && currentTask: kill() is called and awaited.
Preempt(c, r) ==
    /\ ~MicrotaskPending
    /\ c.pc = "cwd"
    /\ r.ok
    /\ singleFlight(c.force, currentTask) = "preempt"
    /\ LET k == kill(tasks[currentTask])
       IN /\ tasks' = [tasks EXCEPT ![currentTask] = k.task]
          /\ calls' = Pend(Unpend(calls, c),
                [c EXCEPT !.pc = "kill",
                          !.kill = k.promise,
                          !.target = currentTask,
                          !.overlapped = tasks[currentTask].interrupted
                                            /\ tasks[currentTask].process = "live"])
          /\ last' = Did("kill", "runCargo", NoTask)
    /\ UNCHANGED <<currentTask, nCalls, channel, published, notifications,
                   complexMessageIndex, linesDelivered>>
    /\ UNCHANGED checkArgs

\* cwd() resolved, a task is current and force is false: runCargo returns.
Drop(c, r) ==
    /\ ~MicrotaskPending
    /\ c.pc = "cwd"
    /\ r.ok
    /\ singleFlight(c.force, currentTask) = "drop"
    /\ calls' = returned(calls, c)
    /\ last' = Did("drop", c.kind, NoTask)
    /\ UNCHANGED <<currentTask, tasks, nCalls, channel, published, notifications,
                   complexMessageIndex, linesDelivered>>
    /\ UNCHANGED checkArgs

\* cwd() resolved and the task is started: diagnostics cleared, the CargoTask
\* created, execute() called (onStart clears the channel and writes the start line).
\* A failed spawn rejects the promise at once and runCargo's catch and tail run.
Start(c, r, spawnResult) ==
    /\ ~MicrotaskPending
    /\ c.pc = "cwd"
    /\ r.ok
    /\ singleFlight(c.force, currentTask) = "start"
    /\ LET args == augment(c.command, c.args)
           t == FreeId(tasks)
           owner == IF c.kind = "init" THEN "initRun" ELSE "runCargo"
           task == execute(CargoTask(owner, <<c.command>> \o args), spawnResult)
           started == <<StartedLine(c.command, args)>>
           rep == report(task.outcome)
       IN /\ published' = clearDiagnostics(published)
          /\ IF task.outcome.kind = "pending"
             THEN /\ currentTask' = t
                  /\ tasks' = Reachable(Put(tasks, t, task), t)
                  /\ channel' = started
                  /\ notifications' = notifications
                  /\ calls' = Unpend(calls, c)
                  /\ last' = Quiet
             ELSE /\ currentTask' = 0
                  /\ tasks' = Reachable(tasks, 0)
                  /\ channel' = started \o rep.lines
                  /\ notifications' = notifications \o rep.notes
                  /\ calls' = returned(calls, c)
                  /\ last' = Did("settled", owner, task)
    /\ UNCHANGED <<nCalls, complexMessageIndex, linesDelivered>>
    /\ UNCHANGED checkArgs

\* tree-kill's callback resolves the promise of kill(): runCargo calls itself with
\* the same request (up to its await of cwd()) and returns.
KillCallback(c) ==
    /\ ~MicrotaskPending
    /\ c.pc = "kill"
    /\ c.kill = "dispatched"
    /\ calls' = Pend(Unpend(calls, c),
            [c EXCEPT !.pc = "cwd", !.kill = "none", !.reissued = TRUE,
                      !.overlapped = FALSE])
    /\ last' = Quiet
    /\ UNCHANGED <<currentTask, tasks, nCalls, channel, published, notifications,
                   complexMessageIndex, linesDelivered>>
    /\ UNCHANGED checkArgs

\* invokeCargoNew and the rest of invokeCargoInit: currentTask is set without being
\* looked at, the channel cleared, and execute() awaited with no onStart.
startUnchecked(owner, argv, spawnResult) ==
    LET t == FreeId(tasks)
        task == execute(CargoTask(owner, argv), spawnResult)
    IN /\ tasks' = Reachable(Put(tasks, t, task), t)
       /\ currentTask' = t
       /\ channel' = <<>>
       /\ last' = IF task.outcome.kind = "pending" THEN Quiet
                  ELSE Did("settled", owner, task)

\* invokeCargoNew; a rejection of execute() leaves the function at the await.
InvokeCargoNew(isBin, spawnResult) ==
    /\ ~MicrotaskPending
    /\ nCalls < MaxCalls
    /\ nCalls' = nCalls + 1
    /\ startUnchecked("new", <<"new", "project", IF isBin THEN "--bin" ELSE "--lib">>,
                      spawnResult)
    /\ UNCHANGED <<calls, published, notifications, complexMessageIndex,
                   linesDelivered>>
    /\ UNCHANGED checkArgs

\* The rest of invokeCargoInit once its runCargo has returned.
InitContinue(c, spawnResult) ==
    /\ c.pc = "initCont"
    /\ calls' = Unpend(calls, c)
    /\ startUnchecked("init", <<"init">> \o c.args, spawnResult)
    /\ UNCHANGED <<nCalls, published, notifications, complexMessageIndex,
                   linesDelivered>>
    /\ UNCHANGED checkArgs

\* stopTask
StopTask ==
    /\ ~MicrotaskPending
    /\ currentTask # 0
    /\ tasks' = [tasks EXCEPT ![currentTask] = kill(@).task]
    /\ last' = Did("kill", "stopTask", NoTask)
    /\ UNCHANGED <<currentTask, calls, nCalls, channel, published, notifications,
                   complexMessageIndex, linesDelivered>>
    /\ UNCHANGED checkArgs

\* The process of task t exits with code: the 'exit' handler settles the promise
\* and the function awaiting it runs on.
Exit(t, code) ==
    /\ ~MicrotaskPending
    /\ tasks[t].process = "live"
    /\ LET task == onExit(tasks[t], code)
           rep == report(task.outcome)
       IN /\ last' = Did("settled", task.owner, task)
          /\ IF task.owner \in {"runCargo", "initRun"}
             THEN \* runCargo, lines 317-345
                  /\ currentTask' = 0
                  /\ tasks' = Reachable([tasks EXCEPT ![t] = task], 0)
                  /\ channel' = channel \o rep.lines
                  /\ notifications' = notifications \o rep.notes
                  /\ calls' = IF task.owner = "initRun"
                              THEN Pend(calls, InitCont(SubSeq(task.argv, 2, Len(task.argv))))
                              ELSE calls
             ELSE \* invokeCargoNew / invokeCargoInit: currentTask = null after the await
                  /\ currentTask' = IF task.outcome.kind = "resolved" THEN 0 ELSE currentTask
                  /\ tasks' = Reachable([tasks EXCEPT ![t] = task], currentTask')
                  /\ UNCHANGED <<calls, channel, notifications>>
    /\ UNCHANGED <<nCalls, published, complexMessageIndex, linesDelivered>>
    /\ UNCHANGED checkArgs

\* A complete line on the stdout of task t's process.
StdoutLine(t, line) ==
    /\ ~MicrotaskPending
    /\ tasks[t].process = "live"
    /\ linesDelivered < MaxLines
    /\ linesDelivered' = linesDelivered + 1
    /\ IF tasks[t].owner \in {"runCargo", "initRun"} /\ startsWithBrace(line.text)
       THEN LET parsed == parseLine(line, complexMessageIndex)
            IN /\ published' = published \o parsed.diagnostics
               /\ complexMessageIndex' = parsed.index
               /\ UNCHANGED channel
       ELSE /\ channel' = Append(channel, line.text)
            /\ UNCHANGED <<published, complexMessageIndex>>
    /\ last' = Quiet
    /\ UNCHANGED <<currentTask, tasks, calls, nCalls, notifications>>
    /\ UNCHANGED checkArgs

\* A complete line on the stderr of task t's process.
StderrLine(t, line) ==
    /\ ~MicrotaskPending
    /\ tasks[t].process = "live"
    /\ linesDelivered < MaxLines
    /\ linesDelivered' = linesDelivered + 1
    /\ channel' = Append(channel, line.text)
    /\ last' = Quiet
    /\ UNCHANGED <<currentTask, tasks, calls, nCalls, published, notifications,
                   complexMessageIndex>>
    /\ UNCHANGED checkArgs

Next ==
    \/ \E command \in Commands, force \in BOOLEAN : RunCargo(command, force)
    \/ \E crateType \in CrateTypes : InvokeCargoInit(crateType)
    \/ \E isBin \in BOOLEAN, s \in SpawnResults : InvokeCargoNew(isBin, s)
    \/ StopTask
    \/ \E c \in BagToSet(calls), r \in CwdResults : CwdFailed(c, r)
    \/ \E c \in BagToSet(calls), r \in CwdResults : Preempt(c, r)
    \/ \E c \in BagToSet(calls), r \in CwdResults : Drop(c, r)
    \/ \E c \in BagToSet(calls), r \in CwdResults, s \in SpawnResults : Start(c, r, s)
    \/ \E c \in BagToSet(calls) : KillCallback(c)
    \/ \E c \in BagToSet(calls), s \in SpawnResults : InitContinue(c, s)
    \/ \E t \in DOMAIN tasks, code \in ExitCodes : Exit(t, code)
    \/ \E t \in DOMAIN tasks, line \in Lines : StdoutLine(t, line)
    \/ \E t \in DOMAIN tasks, line \in Lines : StderrLine(t, line)

Spec == Init /\ [][Next]_vars

\* The steps the event loop is bound to take: a completion or a callback that is due
\* is run, and a process that was sent SIGTERM exits.
CwdSettles ==
    \E c \in BagToSet(calls), r \in CwdResults, s \in SpawnResults :
        CwdFailed(c, r) \/ Preempt(c, r) \/ Drop(c, r) \/ Start(c, r, s)
KillCallbackRuns == \E c \in BagToSet(calls) : KillCallback(c)
InitContinues == \E c \in BagToSet(calls), s \in SpawnResults : InitContinue(c, s)
KilledProcessExits ==
    \E t \in DOMAIN tasks, code \in ExitCodes : tasks[t].interrupted /\ Exit(t, code)

FairSpec ==
    /\ Spec
    /\ WF_vars(CwdSettles)
    /\ WF_vars(KillCallbackRuns)
    /\ WF_vars(InitContinues)
    /\ WF_vars(KilledProcessExits)

\* The coordinator driven through runCargo alone.
NextRunCargo ==
    \/ \E command \in Commands, force \in BOOLEAN : RunCargo(command, force)
    \/ \E c \in BagToSet(calls), r \in CwdResults : CwdFailed(c, r)
    \/ \E c \in BagToSet(calls), r \in CwdResults : Preempt(c, r)
    \/ \E c \in BagToSet(calls), r \in CwdResults : Drop(c, r)
    \/ \E c \in BagToSet(calls), r \in CwdResults, s \in SpawnResults : Start(c, r, s)
    \/ \E c \in BagToSet(calls) : KillCallback(c)
    \/ \E t \in DOMAIN tasks, code \in ExitCodes : Exit(t, code)
    \/ \E t \in DOMAIN tasks, line \in Lines : StdoutLine(t, line)
    \/ \E t \in DOMAIN tasks, line \in Lines : StderrLine(t, line)

FairRunCargoSpec ==
    /\ Init /\ [][NextRunCargo]_vars
    /\ WF_vars(CwdSettles)
    /\ WF_vars(KillCallbackRuns)
    /\ WF_vars(KilledProcessExits)

----------------------------------------------------------------------------
(* OutputChannelCargoTask: one diagnosticParser, diagnosticPublisher and channel for
   every execute() of the object; the status bar's Stop item kills the running task. *)

MaxExecutes == 2
MaxOutputLines == 2

Levels == {"error", "warning", "note", "help", "bogus"}
Codes == {"", "E0308"}

PrimarySpan == Span("src/main.rs", 3, 5, 3, 12, TRUE, "", FALSE)
PrimaryLabelled == Span("src/main.rs", 6, 5, 6, 6, TRUE, "dropped here", FALSE)
PrimaryExpanded == Span("src/macros.rs", 1, 1, 1, 9, TRUE, "", TRUE)
SecondaryLabelled == Span("src/lib.rs", 5, 14, 5, 15, FALSE, "borrow occurs here", FALSE)
SecondaryUnlabelled == Span("src/lib.rs", 7, 1, 7, 2, FALSE, "", FALSE)

SpanLists ==
    { NoSpans,
      <<PrimarySpan>>,
      <<PrimaryLabelled>>,
      <<PrimaryExpanded>>,
      <<SecondaryLabelled, PrimaryLabelled, SecondaryUnlabelled>>,
      <<SecondaryUnlabelled, SecondaryUnlabelled>> }

\* Children three deep, with siblings, and one child that repeats another.
NestedChildren ==
    <<[level |-> "note", message |-> "a",
       children |-> <<[level |-> "help", message |-> "b",
                       children |-> <<[level |-> "note", message |-> "c",
                                       children |-> NoChildren]>>],
                      [level |-> "help", message |-> "d", children |-> NoChildren]>>],
      [level |-> "note", message |-> "a", children |-> NoChildren]>>

SimpleWithChildren ==
    [level |-> "error", message |-> "does not live long enough", code |-> "E0597",
     spans |-> <<PrimaryLabelled>>, children |-> NestedChildren]

ComplexWithChildren ==
    [level |-> "error", message |-> "does not live long enough", code |-> "E0597",
     spans |-> <<SecondaryLabelled, PrimaryLabelled>>, children |-> NestedChildren]

\* Every level and code on a one-span message and on a three-span message, every
\* span list on an error without a code, and messages with children.
CompilerMessages ==
    { [level |-> l, message |-> "mismatched types", code |-> c, spans |-> sp,
       children |-> NoChildren] :
        l \in Levels, c \in Codes,
        sp \in { <<PrimarySpan>>,
                 <<SecondaryLabelled, PrimaryLabelled, SecondaryUnlabelled>> } }
    \cup { [level |-> "error", message |-> "mismatched types", code |-> "",
            spans |-> sp, children |-> NoChildren] : sp \in SpanLists }
    \cup {SimpleMessage, ComplexMessage, SimpleWithChildren, ComplexWithChildren}

\* The lines a cargo process writes on stdout: JSON events (text stands for the JSON
\* text, reason and message for what JSON.parse gives), plain text, and an event
\* whose JSON text is indented.
IndentedLine ==
    [text |-> "  {complex}", reason |-> "compiler-message", message |-> ComplexMessage]
OutputLines ==
    { [text |-> "{message}", reason |-> "compiler-message", message |-> m] :
        m \in CompilerMessages }
    \cup Lines
    \cup {IndentedLine}

\* The lines a cargo process writes on stderr.
StderrLines == Lines \cup {IndentedLine}

\* new CargoTask in execute(); complexParsed counts the complex messages parsed from
\* this task's output and is read by no operation.
RunningTask(argv) == CargoTask("output", argv) @@ [complexParsed |-> 0]

\* onStdoutLine: line.startsWith('{') decides between the parser and the channel.
routeStdout(text) == IF startsWithBrace(text) THEN "parser" ELSE "channel"

routeStderrAsStdout(text) == IF startsWithBrace(text) THEN "parser" ELSE "channel"

\* onStderrLine
routeStderr(text) == "channel"

Routed(op, kind, task, line, diagnostics) ==
    [op |-> op, kind |-> kind, task |-> task, line |-> line, diagnostics |-> diagnostics]

\* execute(command, args, cwd) up to its await, and on when the spawn fails.
OutputExecute(command, spawnResult) ==
    /\ nCalls < MaxExecutes
    /\ nCalls' = nCalls + 1
    /\ LET args == augment(command, UserDefinedArgs(command))
           t == FreeId(tasks)
           task == execute(RunningTask(<<command>> \o args), spawnResult)
           started == <<StartedLine(command, args)>>
           rep == report(task.outcome)
       IN /\ published' = clearDiagnostics(published)
          /\ IF task.outcome.kind = "pending"
             THEN /\ currentTask' = t
                  /\ tasks' = Reachable(Put(tasks, t, task), t)
                  /\ channel' = started
                  /\ notifications' = notifications
                  /\ last' = Did("execute", "output", task)
             ELSE /\ currentTask' = 0
                  /\ tasks' = Reachable(tasks, 0)
                  /\ channel' = started \o rep.lines
                  /\ notifications' = notifications \o rep.notes
                  /\ last' = Did("settled", "output", task)
    /\ UNCHANGED <<calls, complexMessageIndex, linesDelivered>>
    /\ UNCHANGED checkArgs

OutputStdoutLineUnlessInterrupted(t, line) ==
    /\ tasks[t].process = "live"
    /\ linesDelivered < MaxOutputLines
    /\ linesDelivered' = linesDelivered + 1
    /\ IF tasks[t].interrupted
       THEN /\ last' = Routed("discarded", "stdout", tasks[t], line, <<>>)
            /\ UNCHANGED <<channel, published, complexMessageIndex, tasks>>
       ELSE IF routeStdout(line.text) = "parser"
       THEN LET parsed == parseLine(line, complexMessageIndex)
            IN /\ published' = published \o parsed.diagnostics
               /\ complexMessageIndex' = parsed.index
               /\ tasks' = [tasks EXCEPT ![t].complexParsed =
                                @ + (parsed.index - complexMessageIndex)]
               /\ last' = Routed("parsed", "stdout", tasks'[t], line, parsed.diagnostics)
               /\ UNCHANGED channel
       ELSE /\ channel' = Append(channel, line.text)
            /\ last' = Routed("written", "stdout", tasks[t], line, <<>>)
            /\ UNCHANGED <<published, complexMessageIndex, tasks>>
    /\ UNCHANGED <<currentTask, calls, nCalls, notifications>>
    /\ UNCHANGED checkArgs

\* A complete line on the stdout of task t's process: onStdoutLine.
OutputStdoutLine(t, line) ==
    /\ tasks[t].process = "live"
    /\ linesDelivered < MaxOutputLines
    /\ linesDelivered' = linesDelivered + 1
    /\ IF routeStdout(line.text) = "parser"
       THEN LET parsed == parseLine(line, complexMessageIndex)
            IN /\ published' = published \o parsed.diagnostics
               /\ complexMessageIndex' = parsed.index
               /\ tasks' = [tasks EXCEPT ![t].complexParsed =
                                @ + (parsed.index - complexMessageIndex)]
               /\ last' = Routed("parsed", "stdout", tasks'[t], line, parsed.diagnostics)
               /\ UNCHANGED channel
       ELSE /\ channel' = Append(channel, line.text)
            /\ last' = Routed("written", "stdout", tasks[t], line, <<>>)
            /\ UNCHANGED <<published, complexMessageIndex, tasks>>
    /\ UNCHANGED <<currentTask, calls, nCalls, notifications>>
    /\ UNCHANGED checkArgs

\* A complete line on the stderr of task t's process: onStderrLine.
OutputStderrLine(t, line) ==
    /\ tasks[t].process = "live"
    /\ linesDelivered < MaxOutputLines
    /\ linesDelivered' = linesDelivered + 1
    /\ IF routeStderr(line.text) = "parser"
       THEN LET parsed == parseLine(line, complexMessageIndex)
            IN /\ published' = published \o parsed.diagnostics
               /\ complexMessageIndex' = parsed.index
               /\ last' = Routed("parsed", "stderr", tasks[t], line, parsed.diagnostics)
               /\ UNCHANGED channel
       ELSE /\ channel' = Append(channel, line.text)
            /\ last' = Routed("written", "stderr", tasks[t], line, <<>>)
            /\ UNCHANGED <<published, complexMessageIndex>>
    /\ UNCHANGED <<currentTask, tasks, calls, nCalls, notifications>>
    /\ UNCHANGED checkArgs

\* The process of task t exits: execute() of the runner settles and execute() of
\* OutputChannelCargoTask runs on through its catch block or its tail.
OutputExit(t, code) ==
    /\ tasks[t].process = "live"
    /\ LET task == onExit(tasks[t], code)
           rep == report(task.outcome)
       IN /\ currentTask' = 0
          /\ tasks' = Reachable([tasks EXCEPT ![t] = task], 0)
          /\ channel' = channel \o rep.lines
          /\ notifications' = notifications \o rep.notes
          /\ last' = Did("settled", "output", task)
    /\ UNCHANGED <<calls, nCalls, published, complexMessageIndex, linesDelivered>>
    /\ UNCHANGED checkArgs

\* The command of the status bar's Stop item.
StopRunningTask ==
    /\ currentTask # 0
    /\ tasks' = [tasks EXCEPT ![currentTask] = kill(@).task]
    /\ last' = Did("kill", "stopRunningTask", NoTask)
    /\ UNCHANGED <<currentTask, calls, nCalls, channel, published, notifications,
                   complexMessageIndex, linesDelivered>>
    /\ UNCHANGED checkArgs

NextOutput ==
    \/ \E command \in Commands, s \in SpawnResults : OutputExecute(command, s)
    \/ \E t \in DOMAIN tasks, line \in OutputLines : OutputStdoutLine(t, line)
    \/ \E t \in DOMAIN tasks, line \in StderrLines : OutputStderrLine(t, line)
    \/ \E t \in DOMAIN tasks, code \in ExitCodes : OutputExit(t, code)
    \/ StopRunningTask

OutputSpec == Init /\ [][NextOutput]_vars

----------------------------------------------------------------------------
(* Check mode: invokeCargoCheckWithArgs and checkCargoCheckAvailability *)

\* invokeCargoCheckWithArgs(UserDefinedArgs.getCheckArgs()): checkCargoCheckAvailability
\* creates a CargoTask of its own and awaits execute('check', ['--help'], '/') with no
\* callbacks.  A failed spawn rejects, and the invocation ends there.
InvokeCargoCheckWithArgs(spawnResult) ==
    /\ ~MicrotaskPending
    /\ nCalls < MaxCalls
    /\ nCalls' = nCalls + 1
    /\ LET t == FreeId(tasks)
           task == execute(CargoTask("probe", <<"check", "--help">>), spawnResult)
       IN IF task.outcome.kind = "pending"
          THEN /\ tasks' = Put(tasks, t, task)
               /\ last' = Did("execute", "probe", task)
          ELSE /\ tasks' = tasks
               /\ last' = Did("settled", "probe", task)
    /\ UNCHANGED <<currentTask, calls, channel, published, notifications,
                   complexMessageIndex, linesDelivered>>
    /\ UNCHANGED checkArgs

\* The probe's process exits: isAvailable is exitCode === 0, the command and the
\* arguments are chosen and runCargo(command, args, true) runs up to its await.
ProbeExit(t, code) ==
    /\ ~MicrotaskPending
    /\ tasks[t].process = "live"
    /\ tasks[t].owner = "probe"
    /\ LET task == onExit(tasks[t], code)
           isAvailable == task.outcome = Resolved(0)
           command == IF isAvailable THEN "check" ELSE "rustc"
           args == IF isAvailable THEN UserDefinedArgs("check")
                   ELSE UserDefinedArgs("check") \o <<"--", "-Zno-trans">>
       IN /\ tasks' = Reachable([tasks EXCEPT ![t] = task], currentTask)
          /\ calls' = Pend(calls, Call("runCargo", command, args, TRUE))
          /\ last' = Did("settled", "probe", task)
    /\ UNCHANGED <<currentTask, nCalls, channel, published, notifications,
                   complexMessageIndex, linesDelivered>>
    /\ UNCHANGED checkArgs

NextCheck ==
    \/ \E s \in SpawnResults : InvokeCargoCheckWithArgs(s)
    \/ \E t \in DOMAIN tasks, code \in ExitCodes : ProbeExit(t, code)
    \/ \E c \in BagToSet(calls), r \in CwdResults : CwdFailed(c, r)
    \/ \E c \in BagToSet(calls), r \in CwdResults : Preempt(c, r)
    \/ \E c \in BagToSet(calls), r \in CwdResults, s \in SpawnResults : Start(c, r, s)
    \/ \E c \in BagToSet(calls) : KillCallback(c)
    \/ \E t \in DOMAIN tasks, code \in ExitCodes : tasks[t].owner # "probe" /\ Exit(t, code)

CheckSpec == Init /\ [][NextCheck]_vars

----------------------------------------------------------------------------
(* invokeCargoCheckWithArgs called again and again with one and the same array
   (checkArgs).  The invocations and the runCargo calls they make all hold the
   array itself, so what one of them pushes the others see. *)

\* Every suspended call of cs, its args being the array whose elements are now args.
RECURSIVE Rebind(_, _, _)
Rebind(S, cs, args) ==
    IF S = {} THEN EmptyBag
    ELSE LET c == CHOOSE x \in S : TRUE
         IN [d \in {[c EXCEPT !.args = args]} |-> CopiesIn(c, cs)]
                (+) Rebind(S \ {c}, cs, args)

\* The probe's process exits in an invocation that was given checkArgs:
\* args.push('--', '-Zno-trans') when check is not available, then
\* runCargo(command, args, true) up to its await.
ProbeExitSameArgs(t, code) ==
    /\ ~MicrotaskPending
    /\ tasks[t].process = "live"
    /\ tasks[t].owner = "probe"
    /\ LET task == onExit(tasks[t], code)
           isAvailable == task.outcome = Resolved(0)
           command == IF isAvailable THEN "check" ELSE "rustc"
           args == IF isAvailable THEN checkArgs
                   ELSE checkArgs \o <<"--", "-Zno-trans">>
       IN /\ checkArgs' = args
          /\ tasks' = Reachable([tasks EXCEPT ![t] = task], currentTask)
          /\ calls' = Pend(Rebind(BagToSet(calls), calls, args),
                           Call("runCargo", command, args, TRUE))
          /\ last' = Did("settled", "probe", task)
    /\ UNCHANGED <<currentTask, nCalls, channel, published, notifications,
                   complexMessageIndex, linesDelivered>>

NextSameArgs ==
    \/ \E s \in SpawnResults : InvokeCargoCheckWithArgs(s)
    \/ \E t \in DOMAIN tasks, code \in ExitCodes : ProbeExitSameArgs(t, code)
    \/ \E c \in BagToSet(calls), r \in CwdResults : CwdFailed(c, r)
    \/ \E c \in BagToSet(calls), r \in CwdResults : Preempt(c, r)
    \/ \E c \in BagToSet(calls), r \in CwdResults, s \in SpawnResults : Start(c, r, s)
    \/ \E c \in BagToSet(calls) : KillCallback(c)
    \/ \E t \in DOMAIN tasks, code \in ExitCodes : tasks[t].owner # "probe" /\ Exit(t, code)

SameArgsSpec == Init /\ [][NextSameArgs]_vars

----------------------------------------------------------------------------
(* CargoTask.execute on its own: one caller that supplies any of the three
   callbacks, a process that writes chunks of data to its two streams, and the
   readline interface that execute() puts on each stream.  channel is the log of
   what the caller observes. *)

MaxChunks == 3

\* Data the process writes in one piece: part of a line, the end of a line, an empty
\* line, the end of one line with the start of the next.
Chunks == {"a", "b\n", "\n", "c\nd"}
Streams == {"stdout", "stderr"}
Callbacks == [onStart : BOOLEAN, onStdoutLine : BOOLEAN, onStderrLine : BOOLEAN]

Event(event, text) == [event |-> event, text |-> text]

\* The position of the first line terminator of data, 0 if it has none.
terminator(data) ==
    IF \E i \in 1..Len(data) : SubSeq(data, i, i) = "\n"
    THEN CHOOSE i \in 1..Len(data) :
            /\ SubSeq(data, i, i) = "\n"
            /\ \A j \in 1..(i - 1) : SubSeq(data, j, j) # "\n"
    ELSE 0

\* readline on input data: the complete lines, without their terminators, and the
\* rest that is held back.
RECURSIVE feed(_)
feed(data) ==
    LET i == terminator(data)
    IN IF i = 0
       THEN [lines |-> <<>>, rest |-> data]
       ELSE LET r == feed(SubSeq(data, i + 1, Len(data)))
            IN [lines |-> <<SubSeq(data, 1, i - 1)>> \o r.lines, rest |-> r.rest]

\* readline at the end of its input: what is held back is the last line.
close(rest) == IF rest = "" THEN <<>> ELSE <<rest>>

\* A stream of the child process with its readline interface: written is all the
\* process has written so far, rest is what readline holds back.
Stream(open) == [open |-> open, written |-> "", rest |-> ""]

RECURSIVE lineListenerCrossed(_, _, _)
lineListenerCrossed(stream, callbacks, lines) ==
    IF lines = <<>> THEN <<>>
    ELSE (IF stream = "stdout"
          THEN IF callbacks.onStderrLine
               THEN <<Event("onStderrLine", Head(lines))>> ELSE <<>>
          ELSE IF callbacks.onStdoutLine
               THEN <<Event("onStdoutLine", Head(lines))>> ELSE <<>>)
         \o lineListenerCrossed(stream, callbacks, Tail(lines))

\* The 'line' listeners of the two interfaces, run for each of lines in turn: the
\* calls of the caller's callbacks they make.
RECURSIVE lineListener(_, _, _)
lineListener(stream, callbacks, lines) ==
    IF lines = <<>> THEN <<>>
    ELSE (IF stream = "stdout"
          THEN IF callbacks.onStdoutLine
               THEN <<Event("onStdoutLine", Head(lines))>> ELSE <<>>
          ELSE IF callbacks.onStderrLine
               THEN <<Event("onStderrLine", Head(lines))>> ELSE <<>>)
         \o lineListener(stream, callbacks, Tail(lines))

beforeSpawnTwice(callbacks) ==
    IF callbacks.onStart THEN <<Event("onStart", ""), Event("onStart", "")>> ELSE <<>>

\* The executor of execute()'s promise up to the call of spawn: the calls of the
\* caller's callbacks it makes.
beforeSpawn(callbacks) ==
    IF callbacks.onStart THEN <<Event("onStart", "")>> ELSE <<>>

\* What the caller sees of a settled promise.
Outcome(task) ==
    IF task.outcome.kind = "pending" THEN <<>>
    ELSE <<Event(task.outcome.kind,
                 IF task.outcome.kind = "resolved" THEN ToString(task.outcome.code)
                 ELSE task.outcome.message)>>

\* The caller calls execute() on a new CargoTask once the task before it is over.
RunnerExecute(callbacks, spawnResult) ==
    /\ \A t \in DOMAIN tasks :
            /\ tasks[t].owner = "caller"
            /\ tasks[t].process # "live"
            /\ ~tasks[t].stdout.open /\ ~tasks[t].stderr.open
    /\ LET task == execute(CargoTask("caller", <<"build">>), spawnResult)
       IN /\ tasks' = (1 :> (task @@ [callbacks |-> callbacks,
                                      stdout |-> Stream(spawnResult = "ok"),
                                      stderr |-> Stream(spawnResult = "ok")]))
          /\ channel' = beforeSpawn(callbacks) \o <<Event("spawn", spawnResult)>>
                            \o Outcome(task)
          /\ last' = Did("execute", "caller", task)
    /\ linesDelivered' = 0
    /\ UNCHANGED <<currentTask, calls, nCalls, published, notifications,
                   complexMessageIndex>>
    /\ UNCHANGED checkArgs

\* The process of task t writes chunk to one of its streams.
RunnerData(t, stream, chunk) ==
    /\ tasks[t].owner = "caller"
    /\ tasks[t][stream].open
    /\ linesDelivered < MaxChunks
    /\ linesDelivered' = linesDelivered + 1
    /\ LET r == feed(tasks[t][stream].rest \o chunk)
       IN /\ tasks' = [tasks EXCEPT ![t][stream].written = @ \o chunk,
                                    ![t][stream].rest = r.rest]
          /\ channel' = channel \o lineListener(stream, tasks[t].callbacks, r.lines)
    /\ last' = Quiet
    /\ UNCHANGED <<currentTask, calls, nCalls, published, notifications,
                   complexMessageIndex>>
    /\ UNCHANGED checkArgs

\* One of the streams of task t ends.
RunnerClose(t, stream) ==
    /\ tasks[t].owner = "caller"
    /\ tasks[t][stream].open
    /\ tasks' = [tasks EXCEPT ![t][stream].open = FALSE, ![t][stream].rest = ""]
    /\ channel' = channel \o lineListener(stream, tasks[t].callbacks,
                                          close(tasks[t][stream].rest))
    /\ last' = Quiet
    /\ UNCHANGED <<currentTask, calls, nCalls, published, notifications,
                   complexMessageIndex, linesDelivered>>
    /\ UNCHANGED checkArgs

\* The process of task t exits.
RunnerExit(t, code) ==
    /\ tasks[t].owner = "caller"
    /\ tasks[t].process = "live"
    /\ LET task == onExit(tasks[t], code)
       IN /\ tasks' = [tasks EXCEPT ![t] = task]
          /\ channel' = channel \o Outcome(task)
          /\ last' = Did("settled", "caller", task)
    /\ UNCHANGED <<currentTask, calls, nCalls, published, notifications,
                   complexMessageIndex, linesDelivered>>
    /\ UNCHANGED checkArgs

NextRunner ==
    \/ \E callbacks \in Callbacks, s \in SpawnResults : RunnerExecute(callbacks, s)
    \/ \E t \in DOMAIN tasks, stream \in Streams, chunk \in Chunks :
            RunnerData(t, stream, chunk)
    \/ \E t \in DOMAIN tasks, stream \in Streams : RunnerClose(t, stream)
    \/ \E t \in DOMAIN tasks, code \in ExitCodes : RunnerExit(t, code)

RunnerSpec == Init /\ [][NextRunner]_vars

----------------------------------------------------------------------------
(* runCargo with the streams of a process that outlive its 'exit' event: the 'exit'
   listener removes the listeners of the process, the two readline interfaces keep
   theirs until their inputs end. *)

\* The process of task t exits while its stdout still holds data: runCargo runs on
\* as in Exit, the readline interface stays.
ExitBeforeStreamsEnd(t, code) ==
    /\ ~MicrotaskPending
    /\ tasks[t].process = "live"
    /\ tasks[t].owner = "runCargo"
    /\ LET task == onExit(tasks[t], code)
           rep == report(task.outcome)
       IN /\ last' = Did("settled", task.owner, task)
          /\ currentTask' = 0
          /\ tasks' = Reachable([tasks EXCEPT ![t] = task @@ [stdout |-> Stream(TRUE)]], 0)
          /\ channel' = channel \o rep.lines
          /\ notifications' = notifications \o rep.notes
    /\ UNCHANGED <<calls, nCalls, published, complexMessageIndex, linesDelivered>>
    /\ UNCHANGED checkArgs

\* A complete line on the stdout of task t, whose process has exited: the 'line'
\* listener calls the onStdoutLine that runCargo gave to execute().
LateStdoutLine(t, line) ==
    /\ ~MicrotaskPending
    /\ tasks[t].process = "null"
    /\ Draining(tasks[t])
    /\ linesDelivered < MaxLines
    /\ linesDelivered' = linesDelivered + 1
    /\ IF startsWithBrace(line.text)
       THEN LET parsed == parseLine(line, complexMessageIndex)
            IN /\ published' = published \o parsed.diagnostics
               /\ complexMessageIndex' = parsed.index
               /\ UNCHANGED channel
       ELSE /\ channel' = Append(channel, line.text)
            /\ UNCHANGED <<published, complexMessageIndex>>
    /\ last' = Quiet
    /\ UNCHANGED <<currentTask, tasks, calls, nCalls, notifications>>
    /\ UNCHANGED checkArgs

\* The stdout of task t, whose process has exited, ends.
StreamEnd(t) ==
    /\ ~MicrotaskPending
    /\ tasks[t].process = "null"
    /\ Draining(tasks[t])
    /\ tasks' = Reachable([tasks EXCEPT ![t].stdout.open = FALSE], currentTask)
    /\ last' = Quiet
    /\ UNCHANGED <<currentTask, calls, nCalls, channel, published, notifications,
                   complexMessageIndex, linesDelivered>>
    /\ UNCHANGED checkArgs

NextRestart ==
    \/ \E command \in Commands, force \in BOOLEAN : RunCargo(command, force)
    \/ \E c \in BagToSet(calls), r \in CwdResults : Preempt(c, r)
    \/ \E c \in BagToSet(calls), r \in CwdResults : Drop(c, r)
    \/ \E c \in BagToSet(calls), r \in CwdResults, s \in SpawnResults : Start(c, r, s)
    \/ \E c \in BagToSet(calls) : KillCallback(c)
    \/ \E t \in DOMAIN tasks, code \in ExitCodes : Exit(t, code)
    \/ \E t \in DOMAIN tasks, code \in ExitCodes : ExitBeforeStreamsEnd(t, code)
    \/ \E t \in DOMAIN tasks, line \in Lines : StdoutLine(t, line)
    \/ \E t \in DOMAIN tasks, line \in Lines : LateStdoutLine(t, line)
    \/ \E t \in DOMAIN tasks : StreamEnd(t)

RestartSpec == Init /\ [][NextRestart]_vars

----------------------------------------------------------------------------
(* runCargo with stdout lines that parseLine cannot take.  Neither parseLine nor
   onStdoutLine nor the 'line' listener catches: the exception leaves readline's
   loop over the lines of the data it was given and reaches the extension host,
   which logs it and goes on. *)

\* A line cut short, and a compiler-message event without its spans.
TruncatedLine == [text |-> "{\"reason\":\"compiler-mess", reason |-> "", message |-> SimpleMessage]
SpanlessLine ==
    [text |-> "{nospans}", reason |-> "compiler-message",
     message |-> [level |-> "error", message |-> "aborting", code |-> "",
                  children |-> NoChildren]]
MalformedLines == {TruncatedLine, SpanlessLine}

\* What one 'data' event of stdout can hold: one or two complete lines.
DataLines == Lines \cup MalformedLines
Data == {<<a>> : a \in DataLines} \cup {<<a, b>> : a, b \in DataLines}

\* JSON.parse(line) throws a SyntaxError: the text of an object has no end.
JSONparseThrows(text) == SubSeq(text, Len(text), Len(text)) # "}"

\* parseLine throws: JSON.parse does, or compilerMessage.spans is undefined.
parseLineThrows(line) ==
    \/ JSONparseThrows(line.text)
    \/ line.reason = "compiler-message" /\ "spans" \notin DOMAIN line.message

\* readline calls the 'line' listener, and so runCargo's onStdoutLine, for each of
\* lines in turn; sinks holds published, index and channel.  An exception ends the
\* loop.
RECURSIVE onStdoutLines(_, _)
onStdoutLines(lines, sinks) ==
    IF lines = <<>> THEN sinks
    ELSE LET line == Head(lines)
         IN IF startsWithBrace(line.text)
            THEN IF parseLineThrows(line)
                 THEN [sinks EXCEPT !.thrown = TRUE]
                 ELSE LET parsed == parseLine(line, sinks.index)
                      IN onStdoutLines(Tail(lines),
                            [sinks EXCEPT !.published = @ \o parsed.diagnostics,
                                          !.index = parsed.index])
            ELSE onStdoutLines(Tail(lines),
                    [sinks EXCEPT !.channel = Append(@, line.text)])

\* The stdout of task t's process gives data holding the complete lines lines.
StdoutData(t, lines) ==
    /\ ~MicrotaskPending
    /\ tasks[t].process = "live"
    /\ tasks[t].owner = "runCargo"
    /\ linesDelivered < MaxOutputLines
    /\ linesDelivered' = linesDelivered + 1
    /\ LET sinks == onStdoutLines(lines,
                        [published |-> published, index |-> complexMessageIndex,
                         channel |-> channel, thrown |-> FALSE])
       IN /\ published' = sinks.published
          /\ complexMessageIndex' = sinks.index
          /\ channel' = sinks.channel
          /\ last' = Did(IF sinks.thrown THEN "thrown" ELSE "data", "runCargo", tasks[t])
    /\ UNCHANGED <<currentTask, tasks, calls, nCalls, notifications>>
    /\ UNCHANGED checkArgs

NextData ==
    \/ \E command \in Commands, force \in BOOLEAN : RunCargo(command, force)
    \/ \E c \in BagToSet(calls), r \in CwdResults : Drop(c, r)
    \/ \E c \in BagToSet(calls), r \in CwdResults, s \in SpawnResults : Start(c, r, s)
    \/ \E t \in DOMAIN tasks, code \in ExitCodes : Exit(t, code)
    \/ \E t \in DOMAIN tasks, lines \in Data : StdoutData(t, lines)

DataSpec == Init /\ [][NextData]_vars

----------------------------------------------------------------------------
(* The command handlers that call runCargo with force = true
   (invokeCargoBuildWithArgs and the like). *)

NextForced ==
    \/ \E command \in Commands : RunCargo(command, TRUE)
    \/ \E c \in BagToSet(calls), r \in CwdResults : CwdFailed(c, r)
    \/ \E c \in BagToSet(calls), r \in CwdResults : Preempt(c, r)
    \/ \E c \in BagToSet(calls), r \in CwdResults, s \in SpawnResults : Start(c, r, s)
    \/ \E c \in BagToSet(calls) : KillCallback(c)
    \/ \E t \in DOMAIN tasks, code \in ExitCodes : Exit(t, code)
    \/ \E t \in DOMAIN tasks, line \in Lines : StdoutLine(t, line)

ForcedSpec == Init /\ [][NextForced]_vars

----------------------------------------------------------------------------
(* CurrentWorkingDirectoryManager: cwd() called again and again while the active
   text editor and the files on disk change.  channel is the log of the calls. *)

rootPath == "/ws"

\* window.activeTextEditor: none, or the file name of its document.
Editors == {"", "/ws/a/src/main.rs", "/ws/README.md", "/other/x.rs"}

\* The directories that hold a Cargo.toml, as access() finds the disk.
Disks == SUBSET {"/ws", "/ws/a"} \cup {{"/"}}

\* this.rememberedCwd: the constructor sets it to null and nothing assigns it.
rememberedCwd == "null"

resolved(value) == [ok |-> TRUE, value |-> value]
rejected(message) == [ok |-> FALSE, value |-> message]

startsWith(text, prefix) ==
    Len(text) >= Len(prefix) /\ SubSeq(text, 1, Len(prefix)) = prefix

\* path.dirname: the path up to its last separator.
dirname(path) ==
    LET i == CHOOSE k \in 1..Len(path) :
                /\ SubSeq(path, k, k) = "/"
                /\ \A j \in (k + 1)..Len(path) : SubSeq(path, j, j) # "/"
    IN IF i = 1 THEN "/" ELSE SubSeq(path, 1, i - 1)

\* path.join(directory, 'Cargo.toml')
joinCargoToml(directory) ==
    IF directory = "/" THEN "/Cargo.toml" ELSE directory \o "/Cargo.toml"

checkPathExists(path, disk) == dirname(path) \in disk /\ path = joinCargoToml(dirname(path))

\* findUp('Cargo.toml', {cwd}): the path of the nearest Cargo.toml at or above cwd,
\* "null" if there is none.
RECURSIVE findUp(_, _)
findUp(cwd, disk) ==
    IF cwd \in disk THEN joinCargoToml(cwd)
    ELSE IF cwd = "/" THEN "null"
    ELSE findUp(dirname(cwd), disk)

findCargoTomlUpToWorkspace(cwd, disk) ==
    LET cargoTomlDirPath == findUp(cwd, disk)
    IN IF cargoTomlDirPath = "null"
       THEN rejected("Cargo.toml hasn't been found")
       ELSE IF ~startsWith(cargoTomlDirPath, rootPath)
       THEN rejected("Cargo.toml hasn't been found within the workspace")
       ELSE resolved(dirname(cargoTomlDirPath))

getCwdFromActiveTextEditor(editor, disk) ==
    IF editor = ""
    THEN rejected("No active document")
    ELSE IF ~startsWith(editor, rootPath)
    THEN rejected("Current document not in the workspace")
    ELSE findCargoTomlUpToWorkspace(dirname(editor), disk)

\* getPreviousCwd: null is not undefined, and path.join(null, 'Cargo.toml') throws a
\* TypeError, which the caller's catch takes like a rejection.
getPreviousCwd(disk) ==
    IF rememberedCwd = "undefined" THEN rejected("undefined")
    ELSE IF rememberedCwd = "null" THEN rejected("TypeError")
    ELSE IF checkPathExists(joinCargoToml(rememberedCwd), disk)
    THEN resolved(rememberedCwd)
    ELSE rejected("undefined")

checkWorkspaceCanBeUsedAsCwd(disk) == checkPathExists(joinCargoToml(rootPath), disk)

\* cwd(): what its promise settles with.
cwd(editor, disk) ==
    LET fromEditor == getCwdFromActiveTextEditor(editor, disk)
    IN IF fromEditor.ok THEN fromEditor
       ELSE IF getPreviousCwd(disk).ok THEN getPreviousCwd(disk)
       ELSE IF checkWorkspaceCanBeUsedAsCwd(disk) THEN resolved(rootPath)
       ELSE fromEditor

\* A call of cwd() with the editor and the disk as they are then.
Cwd(editor, disk) ==
    /\ nCalls < MaxCalls
    /\ nCalls' = nCalls + 1
    /\ channel' = Append(channel, [editor |-> editor, disk |-> disk,
                                   fromEditor |-> getCwdFromActiveTextEditor(editor, disk),
                                   result |-> cwd(editor, disk)])
    /\ last' = Quiet
    /\ UNCHANGED <<currentTask, tasks, calls, published, notifications,
                   complexMessageIndex, linesDelivered>>
    /\ UNCHANGED checkArgs

NextCwd == \E editor \in Editors, disk \in Disks : Cwd(editor, disk)

CwdSpec == Init /\ [][NextCwd]_vars

----------------------------------------------------------------------------
(* Properties *)

Live(ts) == {t \in DOMAIN ts : ts[t].process = "live"}
Suspended == BagToSet(calls)
\* Call c runs on in this step (it leaves its await).
Resumes(c) == CopiesIn(c, calls') < CopiesIn(c, calls)
CwdErrorShown ==
    \E r \in CwdResults :
        ~r.ok /\ notifications' = Append(notifications, [kind |-> "error", text |-> r.value])

\* C1: when runCargo, its working directory resolved, finds a task current and
\* force is false, it returns and changes nothing: no task is created or killed,
\* the diagnostics, the channel and the notifications stay as they are, and no
\* runCargo is left pending in its place.
C1_DroppedRequest ==
    [][\A c \in Suspended :
        (c.pc = "cwd" /\ ~c.force /\ currentTask # 0 /\ Resumes(c) /\ ~CwdErrorShown)
            => /\ UNCHANGED <<currentTask, tasks, published, channel, notifications>>
               /\ \A d \in BagToSet(calls') :
                    d.pc \in {"cwd", "kill"} => CopiesIn(d, calls') <= CopiesIn(d, calls)
      ]_vars

C1_Witness ==
    /\ last.op = "drop"
    /\ last.kind = "runCargo"
    /\ currentTask # 0
    /\ tasks[currentTask].process = "live"
    /\ published # <<>>

\* C2: at most one task process is alive at any time.
C2_AtMostOneRunning == Cardinality(Live(tasks)) <= 1

\* C3: when a runCargo that called kill() on a running task starts its new task,
\* the task it killed is no longer alive.
C3_PriorExitedBeforeNewStarts ==
    [][\A c \in Suspended :
        (c.pc = "cwd" /\ c.target # 0 /\ Resumes(c) /\ Live(tasks') \ Live(tasks) # {})
            => c.target \notin Live(tasks)
      ]_vars

\* C4: a forced runCargo that called kill() on the running task and called itself
\* again when kill() returned does not stay pending for ever: it starts its task (or
\* its working directory fails to resolve).
C4_ForcedRestartStarts ==
    []<>(\A c \in Suspended : ~c.reissued)

\* C5: a forced runCargo that arrives while the current task has been killed and has
\* not exited yet does not stay suspended at its kill() for ever.
C5_OverlappingForcedProgresses ==
    []<>(\A c \in Suspended : ~(c.pc = "kill" /\ c.overlapped /\ ~c.reissued))

\* C6: kill() sends the signal at most once per CargoTask, and a kill() on a task
\* already interrupted leaves the task as it is.
C6_KillIdempotent ==
    [][/\ \A t \in DOMAIN tasks' : tasks'[t].signals <= 1
       /\ (last'.op = "kill" /\ tasks[currentTask].interrupted)
            => tasks'[currentTask] = tasks[currentTask]
      ]_vars

C6_Witness ==
    /\ last.op = "kill"
    /\ \E c \in Suspended :
        /\ c.pc = "kill" /\ c.overlapped
        /\ c.target \in DOMAIN tasks
        /\ tasks[c.target].signals = 1
        /\ tasks[c.target].interrupted

\* C7: every awaited kill() returns: no runCargo stays at its await of kill() for ever.
C7_KillReturns ==
    []<>(\A c \in Suspended : c.pc # "kill")

Classified(task) ==
    /\ ~task.spawned => task.outcome.kind = "error"
    /\ (task.spawned /\ task.killedLive) => task.outcome = Cancelled
    /\ (task.spawned /\ ~task.killedLive) =>
            task.exitCode \in ExitCodes /\ task.outcome = Resolved(task.exitCode)

\* C8: execute() settles once, with the spawn error if the spawn failed, else as
\* cancelled if kill() was called while the process was running, else with the exit
\* code of the process.
C8_OutcomeOfExecute ==
    [][/\ last'.op = "settled" => Classified(last'.task)
       /\ \A t \in DOMAIN tasks \cap DOMAIN tasks' :
            tasks[t].outcome.kind # "pending" => tasks'[t].outcome = tasks[t].outcome
      ]_vars

C8_Witness ==
    /\ last.op = "settled"
    /\ last.task.outcome = Cancelled
    /\ last.task.exitCode = 0

\* C9: once a task has ended it is no longer the current task.
C9_ReturnsToIdle ==
    currentTask # 0 => tasks[currentTask].outcome.kind = "pending"

IsEndLine(line) ==
    \/ line = DurationLine
    \/ Len(line) >= Len(CompletedLine("")) /\ SubSeq(line, 1, Len(CompletedLine(""))) = CompletedLine("")

\* C10: when execute() of a runCargo task is rejected with ENOENT, the 'not
\* available' notification is shown and no completion or duration line is written.
C10_SpawnFailedReport ==
    (/\ last.op = "settled"
     /\ last.kind \in {"runCargo", "initRun"}
     /\ last.task.outcome = Rejected("ENOENT"))
        => /\ notifications # <<>>
           /\ notifications[Len(notifications)] = NotAvailable
           /\ \A i \in DOMAIN channel : ~IsEndLine(channel[i])


\* C11: when the execute() a coordinator function awaits ends as cancelled (the task
\* was killed by stopTask or by a forced runCargo before its exit), that step writes
\* nothing to the channel and shows no notification.
C11_CancelledNotReported ==
    [][(last'.op = "settled" /\ last'.task.outcome = Cancelled)
            => UNCHANGED <<channel, notifications>>]_vars

\* A task started by runCargo was killed and has exited as cancelled; the channel
\* holds what was written before.
C11_Witness ==
    /\ last.op = "settled" /\ last.kind = "runCargo"
    /\ last.task.outcome = Cancelled /\ last.task.signals = 1
    /\ channel # <<>>

HasPrefix(s, p) == Len(s) >= Len(p) /\ SubSeq(s, 1, Len(p)) = p
NumberPrefix(n) == "(" \o ToString(n) \o ") "
\* The last step passed a line to the parser and the line holds a complex message.
ParsedComplex ==
    /\ last.op = "parsed"
    /\ last.line.reason = "compiler-message"
    /\ Len(last.line.message.spans) > 0
    /\ isComplexCompilerMessage(last.line.message)

\* C12: the first complex message parsed from the output of a task is numbered (1):
\* every diagnostic made from it starts with "(1) ", whatever earlier tasks parsed
\* (stated for a task that runs alone, the earlier ones having ended).
C12_ParserFreshPerInvocation ==
    (ParsedComplex /\ last.task.complexParsed = 1 /\ Cardinality(DOMAIN tasks) = 1)
        => \A i \in DOMAIN last.diagnostics :
                HasPrefix(last.diagnostics[i].message, NumberPrefix(1))

\* C13: parsing a complex message raises the parser's counter by one, and every
\* diagnostic made from the message starts with "(N) " for the new value N; the
\* counter never goes down.
C13_ComplexNumbering ==
    [][/\ complexMessageIndex' >= complexMessageIndex
       /\ ParsedComplex' =>
            /\ complexMessageIndex' = complexMessageIndex + 1
            /\ \A i \in DOMAIN last'.diagnostics :
                    HasPrefix(last'.diagnostics[i].message,
                              NumberPrefix(complexMessageIndex'))]_vars

\* The second of two complex messages has been parsed: two diagnostics, both "(2) ".
C13_Witness ==
    /\ ParsedComplex
    /\ complexMessageIndex = 2
    /\ Len(last.diagnostics) = 2
    /\ \A i \in DOMAIN last.diagnostics :
            HasPrefix(last.diagnostics[i].message, NumberPrefix(2))

\* The diagnostics of the last parsed line that lie at a span.
DiagnosticsAt(span) ==
    {i \in DOMAIN last.diagnostics :
        /\ last.diagnostics[i].filePath = span.file_name
        /\ last.diagnostics[i].range = <<span.line_start - 1, span.column_start - 1,
                                         span.line_end - 1, span.column_end - 1>>}

ParsedSimple ==
    /\ last.op = "parsed"
    /\ last.line.reason = "compiler-message"
    /\ Len(last.line.message.spans) = 1
    /\ ~last.line.message.spans[1].expansion

\* C15: a compiler-message with exactly one span that has no expansion gives exactly
\* one diagnostic, at the span's file, with each of the span's four positions less
\* one, and its message starts with the code (if any) and the message text, not
\* with a number.
C15_SimpleMessage ==
    ParsedSimple =>
        LET m == last.line.message
            span == m.spans[1]
        IN /\ Len(last.diagnostics) = 1
           /\ last.diagnostics[1].filePath = span.file_name
           /\ last.diagnostics[1].range = <<span.line_start - 1, span.column_start - 1,
                                            span.line_end - 1, span.column_end - 1>>
           /\ HasPrefix(last.diagnostics[1].message,
                        (IF m.code # "" THEN m.code \o ": " ELSE "") \o m.message)

\* A one-span message with a code was parsed after a complex message.
C15_Witness ==
    /\ ParsedSimple
    /\ last.line.message.code = "E0308"
    /\ complexMessageIndex = 1
    /\ last.diagnostics[1].range = <<2, 4, 2, 11>>

\* The spans of a message that give a diagnostic.
EmittingSpans(m) == SelectSeq(m.spans, LAMBDA span : span.is_primary \/ span.label # "")

\* C16: the diagnostics of a complex message are, in span order, one for each primary
\* span and one for each labelled non-primary span, each at its own span's file and
\* range.
C16_ComplexSpanOrder ==
    ParsedComplex =>
        LET spans == EmittingSpans(last.line.message)
        IN /\ Len(last.diagnostics) = Len(spans)
           /\ \A i \in DOMAIN spans :
                /\ last.diagnostics[i].filePath = spans[i].file_name
                /\ last.diagnostics[i].range =
                        <<spans[i].line_start - 1, spans[i].column_start - 1,
                          spans[i].line_end - 1, spans[i].column_end - 1>>

\* Two diagnostics at different files, the non-primary span's first.
C16_Witness ==
    /\ ParsedComplex
    /\ Len(last.diagnostics) = 2
    /\ last.diagnostics[1].filePath = "src/lib.rs"
    /\ last.diagnostics[2].filePath = "src/main.rs"
    /\ last.diagnostics[1].range # last.diagnostics[2].range

\* C17: an event whose reason is not compiler-message, and a compiler-message with
\* no spans, give no diagnostics.
C17_NoDiagnostics ==
    (/\ last.op = "parsed"
     /\ \/ last.line.reason # "compiler-message"
        \/ Len(last.line.message.spans) = 0)
        => last.diagnostics = <<>>

\* A compiler-artifact event was parsed after a line that gave diagnostics.
C17_Witness ==
    /\ last.op = "parsed"
    /\ last.line.reason = "compiler-artifact"
    /\ published # <<>>

\* C18: every diagnostic of a message has the severity of the message's level:
\* Warning for warning, Information for note, Hint for help, Error for all else.
C18_SeverityMapping ==
    (last.op = "parsed" /\ last.line.reason = "compiler-message")
        => \A i \in DOMAIN last.diagnostics :
                last.diagnostics[i].severity =
                    (IF last.line.message.level = "warning" THEN "Warning"
                     ELSE IF last.line.message.level = "note" THEN "Information"
                     ELSE IF last.line.message.level = "help" THEN "Hint"
                     ELSE "Error")

\* A complex message of level help gave two Hint diagnostics after a message of an
\* unrecognized level gave an Error.
C18_Witness ==
    /\ ParsedComplex
    /\ last.line.message.level = "help"
    /\ Len(last.diagnostics) = 2
    /\ Len(published) = 3
    /\ published[1].severity = "Error"
    /\ published[3].severity = "Hint"

\* The first character of text that is not a space is '{'.
LooksLikeJsonObject(text) ==
    \E i \in 1..Len(text) :
        /\ SubSeq(text, i, i) = "{"
        /\ \A j \in 1..(i - 1) : SubSeq(text, j, j) = " "

\* C19: a stdout line whose first non-whitespace character is '{' goes to the parser
\* and not to the channel, and the diagnostics the parser returns for it are
\* published.
C19_StdoutJsonRouting ==
    [][(/\ last'.op \in {"parsed", "written"}
        /\ last'.kind = "stdout"
        /\ LooksLikeJsonObject(last'.line.text))
            => /\ last'.op = "parsed"
               /\ channel' = channel
               /\ published' = published \o last'.diagnostics]_vars

\* C20: a stderr line, and a stdout line that does not look like a JSON object, is
\* appended as it is to the channel and is not parsed: the diagnostics and the
\* parser's counter stay as they are.
C20_TextRouting ==
    [][(/\ last'.op \in {"parsed", "written"}
        /\ \/ last'.kind = "stderr"
           \/ ~LooksLikeJsonObject(last'.line.text))
            => /\ last'.op = "written"
               /\ channel' = Append(channel, last'.line.text)
               /\ UNCHANGED <<published, complexMessageIndex>>]_vars

\* A stderr line that starts with '{' was written after a plain stdout line.
C20_Witness ==
    /\ last.op = "written"
    /\ last.kind = "stderr"
    /\ last.line.text = "{complex}"
    /\ Len(channel) = 3
    /\ channel[2] = "Compiling x"
    /\ channel[3] = "{complex}"
    /\ published = <<>>

IsPrefix(p, q) == Len(p) <= Len(q) /\ SubSeq(q, 1, Len(p)) = p
\* The tasks whose process is spawned in this step by runCargo.
StartedByRunCargo ==
    {t \in Live(tasks') \ Live(tasks) : tasks'[t].owner \in {"runCargo", "initRun"}}

\* C21: the step in which runCargo starts a task leaves the diagnostic sink empty (it
\* is cleared before the spawn, so before any line of the task), and the sink loses
\* diagnostics in no other step than a start of runCargo.
C21_ClearedBeforeStart ==
    [][/\ StartedByRunCargo # {} => published' = <<>>
       /\ ~IsPrefix(published, published') =>
            \/ StartedByRunCargo # {}
            \/ /\ last'.op = "settled"
               /\ last'.kind \in {"runCargo", "initRun"}
               /\ last'.task.outcome.kind = "error"]_vars

\* A complex message was parsed and published for an earlier task, and a task started
\* by runCargo is now running with the sink empty.
C21_Witness ==
    /\ complexMessageIndex = 1
    /\ published = <<>>
    /\ currentTask # 0
    /\ tasks[currentTask].process = "live"
    /\ tasks[currentTask].owner = "runCargo"

\* C22: the argument list a task started by runCargo is spawned with is the command,
\* then "--message-format", "json" when the command is build, check, clippy, run or
\* test, then the arguments runCargo was called with, in their order.
C22_ArgumentAugmentation ==
    [][\A c \in Suspended, t \in StartedByRunCargo :
        (c.pc = "cwd" /\ Resumes(c))
            => tasks'[t].argv =
                    <<c.command>>
                    \o (IF c.command \in {"build", "check", "clippy", "run", "test"}
                        THEN <<"--message-format", "json">>
                        ELSE <<>>)
                    \o c.args]_vars

\* A build started with its flags before the caller's argument.
C22_Witness ==
    /\ currentTask # 0
    /\ tasks[currentTask].process = "live"
    /\ tasks[currentTask].argv = <<"build", "--message-format", "json", "--release">>

\* C23: over the check-mode invocations the probe 'check --help' is run once: once
\* a probe has run to its exit, no later invocation spawns a probe process (and what
\* the probe indicated decides the command of every later invocation).
C23_ProbeRunsOnce ==
    [][(\E t \in Live(tasks') \ Live(tasks) : tasks'[t].owner = "probe")
            => \/ nCalls = 0
               \/ \E t \in Live(tasks) : tasks[t].owner = "probe"]_vars

\* C24: a task of runCargo gets its 'Started cargo <command> <args>' line as the
\* whole channel in the step that starts its process, hence before any of its output
\* lines; when its process exits normally the channel gets 'Completed with code <n>',
\* n the exit code, and then the duration line, appended in that step.
C24_StartedAndCompletedLines ==
    [][/\ \A t \in StartedByRunCargo :
            channel' = <<"Started cargo " \o tasks'[t].argv[1] \o " "
                            \o join(Tail(tasks'[t].argv))>>
       /\ (/\ last'.op = "settled" /\ last'.kind \in {"runCargo", "initRun"}
           /\ last'.task.outcome.kind = "resolved")
            => /\ last'.task.outcome.code = last'.task.exitCode
               /\ channel' = channel \o
                      <<"Completed with code " \o ToString(last'.task.exitCode),
                        DurationLine>>]_vars

C24_Witness ==
    /\ last.op = "settled" /\ last.kind = "runCargo"
    /\ last.task.outcome = Resolved(101)
    /\ Len(channel) = 4
    /\ channel[1] = "Started cargo build --message-format json --release"
    /\ channel[2] \notin {"Completed with code 101", DurationLine}
    /\ channel[3] = "Completed with code 101"
    /\ channel[4] = DurationLine

\* The events of log with one of names, in order.
Events(log, names) == SelectSeq(log, LAMBDA e : e.event \in names)

\* C25: execute() calls onStart, when it is supplied, exactly once, before the
\* process is spawned and so before every line callback and before the outcome, also
\* when the spawn fails; whichever callbacks are omitted, none is called and the
\* promise is settled once the spawn has failed or the process has exited.
C25_OnStartOnceBeforeSpawn ==
    \A t \in DOMAIN tasks :
        tasks[t].owner = "caller" =>
            /\ Len(Events(channel, {"onStart"})) = (IF tasks[t].callbacks.onStart THEN 1 ELSE 0)
            /\ tasks[t].callbacks.onStart => channel[1].event = "onStart"
            /\ Len(Events(channel, {"spawn"})) = 1
            /\ channel[IF tasks[t].callbacks.onStart THEN 2 ELSE 1].event = "spawn"
            /\ ~tasks[t].callbacks.onStdoutLine => Events(channel, {"onStdoutLine"}) = <<>>
            /\ ~tasks[t].callbacks.onStderrLine => Events(channel, {"onStderrLine"}) = <<>>
            /\ tasks[t].process = "failed"
                    => Events(channel, {"resolved", "error", "cancelled"})
                            = <<Event("error", channel[Len(channel)].text)>>
            /\ tasks[t].process = "null"
                    => Events(channel, {"resolved", "error", "cancelled"})
                            = <<Event("resolved", ToString(tasks[t].exitCode))>>
            /\ tasks[t].process = "live"
                    => Events(channel, {"resolved", "error", "cancelled"}) = <<>>

\* onStart was called, the spawn failed and the promise is rejected.
C25_Witness ==
    /\ DOMAIN tasks = {1} /\ tasks[1].owner = "caller"
    /\ channel = <<Event("onStart", ""), Event("spawn", "ENOENT"), Event("error", "ENOENT")>>

\* The lines of a sequence, each followed by a line terminator, as one string.
RECURSIVE Terminated(_)
Terminated(lines) ==
    IF lines = <<>> THEN "" ELSE Head(lines) \o "\n" \o Terminated(Tail(lines))

\* The texts the callback of a stream was called with, in order.
Delivered(stream) ==
    LET es == Events(channel, {IF stream = "stdout" THEN "onStdoutLine" ELSE "onStderrLine"})
    IN [i \in 1..Len(es) |-> es[i].text]

\* C26: for each stream whose callback is supplied, the lines the callback got are,
\* in order and each once, the complete lines the process wrote to that stream,
\* without their terminators; what follows the last terminator is held back while
\* the stream is open and is the last line once it has closed; the callback of a
\* stream gets nothing of the other stream.
C26_LinesPerStream ==
    \A t \in DOMAIN tasks, stream \in Streams :
        (/\ tasks[t].owner = "caller"
         /\ tasks[t].callbacks[IF stream = "stdout" THEN "onStdoutLine" ELSE "onStderrLine"])
            => LET s == tasks[t][stream]
               IN /\ \A i \in 1..Len(Delivered(stream)) :
                        terminator(Delivered(stream)[i]) = 0
                  /\ terminator(s.rest) = 0
                  /\ s.open => Terminated(Delivered(stream)) \o s.rest = s.written
                  /\ ~s.open =>
                        /\ s.rest = ""
                        /\ \/ Terminated(Delivered(stream)) = s.written
                           \/ /\ Terminated(Delivered(stream)) = s.written \o "\n"
                              /\ Delivered(stream)[Len(Delivered(stream))] # ""

\* stdout has given one line and holds back the start of the next; stderr has closed
\* and its unterminated data was delivered as its last line.
C26_Witness ==
    /\ DOMAIN tasks = {1} /\ tasks[1].owner = "caller"
    /\ tasks[1].stdout.open /\ tasks[1].stdout.written = "ac\nd"
    /\ tasks[1].stdout.rest = "d"
    /\ ~tasks[1].stderr.open /\ tasks[1].stderr.written = "a"
    /\ channel = <<Event("spawn", "ok"), Event("onStdoutLine", "ac"),
                   Event("onStderrLine", "a")>>

\* C27: once a forced restart has started its new task, and so cleared the
\* diagnostics, a stdout line of the preempted task publishes nothing: the lines of
\* the killed process that come after its exit do not reach the diagnostics of the
\* new task.  (Of two invocations, one started the task that was killed and the
\* other, forced, killed it and started the current one.)
C27_NoDiagnosticsOfPreemptedTask ==
    [][\A t \in DOMAIN tasks, line \in Lines :
            (/\ nCalls = 2
             /\ tasks[t].interrupted /\ tasks[t].process = "null"
             /\ currentTask \notin {0, t} /\ tasks[currentTask].process = "live"
             /\ LateStdoutLine(t, line))
                => published' = published]_vars

\* C28: a line that the process of a task delivers after kill() was called on the
\* task and before its exit is routed as any other line: a stdout line that starts
\* a JSON object is parsed and its diagnostics are added to those published, every
\* other stdout line and every stderr line is appended to the channel.
C28_KilledTaskStillRouted ==
    [][(/\ linesDelivered' = linesDelivered + 1
        /\ last'.task.interrupted /\ last'.task.process = "live")
            => IF last'.kind = "stdout" /\ startsWithBrace(last'.line.text)
               THEN /\ last'.op = "parsed"
                    /\ last'.diagnostics = parseLine(last'.line, complexMessageIndex).diagnostics
                    /\ published' = published \o last'.diagnostics
                    /\ channel' = channel
               ELSE /\ last'.op = "written"
                    /\ channel' = Append(channel, last'.line.text)
                    /\ published' = published]_vars

\* A killed task whose process still runs has had two diagnostics published.
C28_Witness ==
    /\ last.op = "parsed" /\ last.kind = "stdout"
    /\ last.task.interrupted /\ last.task.process = "live"
    /\ Len(last.diagnostics) = 2
    /\ Len(published) >= 2
    /\ SubSeq(published, Len(published) - 1, Len(published)) = last.diagnostics

\* The text that C29 gives for a message and one of its spans.
Body(m, span) ==
    (IF m.code # "" THEN m.code \o ": " ELSE "")
        \o m.message
        \o (IF span.label # "" THEN "\n" \o span.label ELSE "")
        \o childrenToString(m.children, 1)

\* C29: the diagnostic of a one-span message reads: the code and ": " if there is
\* a code, the message, a newline and the span's label if there is a label, the
\* rendered children; the diagnostic of a primary span of a complex message reads
\* "(N) " and then the same.
C29_MessageText ==
    /\ ParsedSimple =>
            last.diagnostics[1].message
                = Body(last.line.message, last.line.message.spans[1])
    /\ ParsedComplex =>
            \A k \in DOMAIN last.line.message.spans :
                LET span == last.line.message.spans[k]
                IN span.is_primary =>
                    /\ Cardinality(DiagnosticsAt(span)) = 1
                    /\ \A i \in DiagnosticsAt(span) :
                            last.diagnostics[i].message
                                = NumberPrefix(complexMessageIndex)
                                    \o Body(last.line.message, span)

\* A one-span message with a code, a label and children.
C29_Witness ==
    /\ ParsedSimple
    /\ last.line.message = SimpleWithChildren
    /\ last.diagnostics[1].message
            = "E0597: does not live long enough\ndropped here"
                \o childrenToString(NestedChildren, 1)

RECURSIVE Spaces(_)
Spaces(n) == IF n = 0 THEN "" ELSE " " \o Spaces(n - 1)

\* The children tree in pre-order, each child with its depth.
RECURSIVE PreOrder(_, _)
PreOrder(children, d) ==
    IF children = <<>> THEN <<>>
    ELSE <<[depth |-> d, level |-> children[1].level, message |-> children[1].message]>>
            \o PreOrder(children[1].children, d + 1)
            \o PreOrder(Tail(children), d)

RECURSIVE RenderEach(_)
RenderEach(entries) ==
    IF entries = <<>> THEN ""
    ELSE "\n" \o Spaces(2 * entries[1].depth) \o entries[1].level \o ": "
            \o entries[1].message \o RenderEach(Tail(entries))

\* The children of the message parsed last, as its diagnostic shows them: what
\* follows the message text and the label.
ShownChildren(text, m, span) ==
    LET head == (IF m.code # "" THEN m.code \o ": " ELSE "") \o m.message
                    \o (IF span.label # "" THEN "\n" \o span.label ELSE "")
    IN SubSeq(text, Len(head) + 1, Len(text))

\* C30: the children are rendered in pre-order, every child once and in order, a
\* child at depth d as a newline, 2*d spaces, its level, ": " and its message;
\* no children render as the empty string.
C30_ChildrenRendering ==
    ParsedSimple =>
        LET m == last.line.message
            shown == ShownChildren(last.diagnostics[1].message, m, m.spans[1])
        IN /\ shown = RenderEach(PreOrder(m.children, 1))
           /\ m.children = <<>> => shown = ""

\* Children three deep with siblings and a repeated child.
C30_Witness ==
    /\ ParsedSimple
    /\ last.line.message.children = NestedChildren
    /\ last.diagnostics[1].message
            = "E0597: does not live long enough\ndropped here"
                \o "\n  note: a\n    help: b\n      note: c\n    help: d\n  note: a"

\* The lines of a sequence that are well-formed.
WellFormed(lines) == SelectSeq(lines, LAMBDA line : ~parseLineThrows(line))

\* C31: a stdout line that starts with '{' and is no valid event is skipped and
\* nothing else is lost: of the lines that stdout gives in one piece, every
\* well-formed one is routed as if the malformed ones were not there.
C31_MalformedLineSkipped ==
    [][\A t \in DOMAIN tasks, lines \in Data :
            StdoutData(t, lines)
                => LET sinks == onStdoutLines(WellFormed(lines),
                                    [published |-> published,
                                     index |-> complexMessageIndex,
                                     channel |-> channel, thrown |-> FALSE])
                   IN /\ published' = sinks.published
                      /\ channel' = sinks.channel
                      /\ complexMessageIndex' = sinks.index]_vars

\* C32: when cwd() fails, runCargo shows the error as a notification and changes
\* nothing else: no task is created, none is killed (force or not), the
\* diagnostics and the channel are not cleared and currentTask stays.
C32_CwdFailureChangesNothing ==
    [][\A c \in Suspended :
            (c.pc = "cwd" /\ Resumes(c) /\ CwdErrorShown)
                => /\ UNCHANGED <<currentTask, tasks, published, channel,
                                  complexMessageIndex>>
                   /\ Len(notifications') = Len(notifications) + 1
                   /\ notifications'[Len(notifications')].kind = "error"
                   /\ \A d \in BagToSet(calls') : d.pc # "kill" \/ d \in BagToSet(calls)]_vars

\* A forced invocation found no working directory while a task was running with a
\* diagnostic published: the task runs on untouched and the diagnostic is kept.
C32_Witness ==
    /\ nCalls = 2 /\ calls = EmptyBag
    /\ notifications = <<[kind |-> "error", text |-> "No active document"]>>
    /\ currentTask # 0
    /\ tasks[currentTask].process = "live" /\ ~tasks[currentTask].interrupted
    /\ Len(published) = 1
    /\ Len(channel) = 1

\* C33: a cwd found from the active text editor is remembered: the next call for
\* which the editor yields no cwd returns it, provided a Cargo.toml is still there,
\* whether or not the workspace root holds a Cargo.toml.
C33_RememberedCwdPreferred ==
    \A j \in 2..Len(channel) :
        (/\ channel[j - 1].fromEditor.ok
         /\ ~channel[j].fromEditor.ok
         /\ channel[j - 1].fromEditor.value \in channel[j].disk)
            => channel[j].result = resolved(channel[j - 1].fromEditor.value)

\* C34: the parser's counter changes only when a complex message is parsed, and
\* then by one: a line that holds a simple message, a message without spans or an
\* event that is no compiler-message leaves it as it is, and so does every step
\* that parses nothing; it never goes down.
C34_OnlyComplexConsumesNumbers ==
    [][/\ complexMessageIndex' # complexMessageIndex
            => /\ ParsedComplex'
               /\ complexMessageIndex' = complexMessageIndex + 1
       /\ (last'.op = "parsed" /\ ~ParsedComplex')
            => /\ complexMessageIndex' = complexMessageIndex
               /\ \A i \in DOMAIN last'.diagnostics :
                    ~HasPrefix(last'.diagnostics[i].message, "(")]_vars

\* After a complex message a message without spans was parsed: the counter is 1.
C34_Witness ==
    /\ last.op = "parsed"
    /\ last.line.reason = "compiler-message"
    /\ last.line.message.spans = NoSpans
    /\ last.diagnostics = <<>>
    /\ complexMessageIndex = 1
    /\ \E i \in DOMAIN published : HasPrefix(published[i].message, NumberPrefix(1))

\* C35: an invocation leaves the array it was given as it was, whether check is
\* available or the fallback is used, so every fallback run started for the same
\* array has the same command line.
C35_ArgsNotModified ==
    [][/\ checkArgs' = checkArgs
       /\ \A t \in StartedByRunCargo :
            tasks'[t].argv[1] = "rustc"
                => tasks'[t].argv = <<"rustc", "--lib", "--", "-Zno-trans">>]_vars

====
